---- MODULE Spec2Model ----
(***************************************************************************)
(* PySlideSpeaker: the incremental build of a slide video.                 *)
(*                                                                         *)
(* The module models src/PySlideSpeaker.py: the fingerprint function       *)
(* (compute_slide_hash), the artifact cache (CacheManager), the per-slide  *)
(* pipeline (_process_slide) and the build orchestrator (build), together  *)
(* with the part of the file system they read and write.                   *)
(*                                                                         *)
(* Text is a TLA+ string; Python's None-able fields are tuples of length   *)
(* 0 (None) or 1.  Floats are counted in halves (2 is 1.0, 1 is 0.5).      *)
(* Sequences are 1-based here; the slide indices stored in the records     *)
(* are the code's 0-based ones.                                            *)
(***************************************************************************)
EXTENDS Integers, Sequences, FiniteSets, TLC

(***************************************************************************)
(* Bounds of the model.                                                    *)
(***************************************************************************)
MaxSlides == 2
MaxStrLen == 2
MaxTextLen == 4
MaxPages == 3
MaxVersions == 2

(***************************************************************************)
(* Values and conversions.                                                 *)
(***************************************************************************)
None == <<>>

Some(v) == <<v>>

\* Python's `a or b` on an optional string: None and "" are both falsy.
OrElse(opt, dflt) == IF opt = None THEN dflt ELSE IF opt[1] = "" THEN dflt ELSE opt[1]

\* str(int) as used by an f-string.
IntStr(n) == ToString(n)

\* str(float) for a float counted in halves: 2 -> "1.0", 3 -> "1.5".
FloatStr(h) == ToString(h \div 2) \o "." \o (IF h % 2 = 0 THEN "0" ELSE "5")

DEFAULT_SETTINGS ==
    [ voice        |-> "ja-JP-NanamiNeural",
      inline_pause |-> 2,
      slide_pause  |-> 0,
      video_fps    |-> 24,
      image_dpi    |-> 200,
      video_codec  |-> "libx264",
      audio_codec  |-> "aac",
      rate         |-> "+0%" ]

\* A slide of the script, before _load_script_and_settings numbers it.
ScriptSlide(page, text, voice, rate) ==
    [page |-> page, text |-> text, voice |-> voice, rate |-> rate]

SlideEntry(index, s) ==
    [index |-> index, page |-> s.page, text |-> s.text, voice |-> s.voice, rate |-> s.rate]

BuildResult(success, output_path, cached, generated, failed, error_message) ==
    [ success         |-> success,
      output_path     |-> output_path,
      cached_count    |-> cached,
      generated_count |-> generated,
      failed_slides   |-> failed,
      error_message   |-> error_message ]

(***************************************************************************)
(* The fingerprint function.                                               *)
(***************************************************************************)
\* The f-string without its pdf_size field.
HashContent_no_size(page, text, voice, rate, inline_pause, slide_pause, pdf_mtime, pdf_size, image_dpi, video_fps, video_codec, audio_codec) ==
    IntStr(page) \o "|" \o text \o "|" \o voice \o "|" \o rate \o "|"
    \o FloatStr(inline_pause) \o "|" \o FloatStr(slide_pause) \o "|"
    \o FloatStr(pdf_mtime) \o "|"
    \o IntStr(image_dpi) \o "|" \o IntStr(video_fps) \o "|"
    \o video_codec \o "|" \o audio_codec

\* The f-string of compute_slide_hash: twelve fields joined by "|".
HashContent(page, text, voice, rate, inline_pause, slide_pause, pdf_mtime, pdf_size, image_dpi, video_fps, video_codec, audio_codec) ==
    IntStr(page) \o "|" \o text \o "|" \o voice \o "|" \o rate \o "|"
    \o FloatStr(inline_pause) \o "|" \o FloatStr(slide_pause) \o "|"
    \o FloatStr(pdf_mtime) \o "|" \o IntStr(pdf_size) \o "|"
    \o IntStr(image_dpi) \o "|" \o IntStr(video_fps) \o "|"
    \o video_codec \o "|" \o audio_codec

\* hashlib.md5(...).hexdigest(): collisions of the digest are assumed away, so
\* the digest is identified with the content it is taken of.
md5(content) == content

\* The fingerprint taken of the slide's own voice and rate, the global ones ignored.
compute_slide_hash_raw(slide, gs, pdf_mtime, pdf_size) ==
    LET voice == OrElse(slide.voice, "None")
        rate  == OrElse(slide.rate, "None")
    IN  md5(HashContent(slide.page, slide.text, voice, rate,
                        gs.inline_pause, gs.slide_pause, pdf_mtime, pdf_size,
                        gs.image_dpi, gs.video_fps, gs.video_codec, gs.audio_codec))

compute_slide_hash(slide, gs, pdf_mtime, pdf_size) ==
    LET voice == OrElse(slide.voice, gs.voice)
        rate  == OrElse(slide.rate, gs.rate)
    IN  md5(HashContent(slide.page, slide.text, voice, rate,
                        gs.inline_pause, gs.slide_pause, pdf_mtime, pdf_size,
                        gs.image_dpi, gs.video_fps, gs.video_codec, gs.audio_codec))

(***************************************************************************)
(* The artifact cache.                                                     *)
(***************************************************************************)
get_clip_path(hash_value) == "clip_" \o hash_value \o ".mp4"

\* audio_path of _process_slide: f"audio_{clip_path.stem}.mp3".
AudioPath(hash_value) == "audio_" \o "clip_" \o hash_value \o ".mp3"

\* The entries of `files` that match glob("clip_*.mp4"): the names of that form
\* are those get_clip_path builds from a fingerprint.
GlobClips(files, hashes) == {f \in files : \E h \in hashes : f = get_clip_path(h)}

\* Path.name of each path of a list.
Names(paths) == {paths[k] : k \in 1..Len(paths)}

\* Every clip unlinked, the used ones too.
cleanup_all_clips(files, used_paths, hashes) == files \ GlobClips(files, hashes)

\* Nothing unlinked.
cleanup_no_clips(files, used_paths, hashes) == files

\* CacheManager.cleanup_unused_clips: the directory after the unused clips are unlinked.
cleanup_unused_clips(files, used_paths, hashes) ==
    files \ {f \in GlobClips(files, hashes) : f \notin Names(used_paths)}

(***************************************************************************)
(* The inputs of a run: the document, the script and the settings.         *)
(***************************************************************************)
\* The document's st_mtime (in halves of a second) and st_size.
DocMtime == 7

DocSize == 9

\* st_mtime and st_size of the document's versions: the first version has the
\* two above, each later one is newer and longer.
MtimeOf(version) == DocMtime + 2 * (version - 1)

SizeOf(version) == DocSize + (version - 1)

\* The slides a script is written from.
SlidePool ==
    { ScriptSlide(1, "a", None, None),
      ScriptSlide(2, "b", None, Some("+5%")),
      ScriptSlide(3, "c", Some("v"), None) }

\* The scripts: every list of at most MaxSlides slides, repetitions included.
Scripts == UNION {[1..n -> SlidePool] : n \in 0..MaxSlides}

\* _load_script_and_settings: the slides numbered from 0 in script order.
LoadSlides(script) == [k \in 1..Len(script) |-> SlideEntry(k - 1, script[k])]

\* No global_settings section in the script: the defaults.
Settings == DEFAULT_SETTINGS

PoolHashes == {compute_slide_hash(s, Settings, DocMtime, DocSize) : s \in SlidePool}

PoolClips == {get_clip_path(h) : h \in PoolHashes}

\* The fingerprints of those slides under every version of the document.
AllHashes ==
    {compute_slide_hash(s, Settings, MtimeOf(v), SizeOf(v)) : s \in SlidePool, v \in 1..MaxVersions}

(***************************************************************************)
(* The state.                                                              *)
(***************************************************************************)
VARIABLES
    pdfExists,        \* the source document exists
    scriptExists,     \* the script file exists
    script,           \* the slides of the script file
    cacheDirExists,   \* the cache directory exists
    outDirExists,     \* the output file's directory exists
    cache,            \* the names of the files of the cache directory
    tempDir,          \* the files of the build's temporary directory
    partial,          \* those of them an encoder that failed left behind
    outputFile,       \* "absent", "written" or "broken"
    pc,               \* where the run is
    slides,           \* build(): the loaded slide list
    i,                \* build(): the slide the loop is at (1-based)
    cached_count,
    generated_count,
    failed_slides,
    final_clip_paths,
    result,           \* the BuildResult build() returned
    atStart,          \* history: the file system when the run began
    raised,           \* history: the indices of the slides whose pipeline raised
    keptIdx,          \* history: for each path of final_clip_paths, its slide's index
    gcRuns,           \* history: how often cleanup_unused_clips ran in this build
    gcDeleted,        \* history: the files it unlinked
    concatCalls,      \* history: the lists handed to _concatenate_clips
    pipelineCalls,    \* history: the slides _process_slide was called for
    existed,          \* history: for each slide checked, whether its clip file existed at the check
    poolsStarted,     \* history: the executors were created
    prev,             \* history: the build before this one
    hashA,            \* fingerprints: the arguments of one call of compute_slide_hash
    hashB,            \* fingerprints: the arguments of another call
    hashOut,          \* fingerprints: what the two calls returned
    audioIn,          \* audio: the arguments of a call of create_audio_with_pauses
    audioOut,         \* audio: what the call came to
    extractIn,        \* page image: the arguments of a call of extract_page_image
    extractOut,       \* page image: what the call came to
    doc,              \* the version of the document that is on disk
    pdf_bytes,        \* the version whose bytes the extractor holds, 0 if none
    pdf_stat,         \* the version whose mtime and size build() has taken, 0 if none
    renderedFrom      \* history: for each clip file, the version its page image was rendered from

inVars == <<pdfExists, scriptExists, script, doc>>

fsVars == <<cacheDirExists, outDirExists, cache, tempDir, partial, outputFile>>

loopVars == <<slides, i, cached_count, generated_count, failed_slides, final_clip_paths>>

histVars == <<atStart, raised, keptIdx, gcRuns, gcDeleted, concatCalls, pipelineCalls, existed, poolsStarted, prev>>

hashVars == <<hashA, hashB, hashOut>>

audioVars == <<audioIn, audioOut>>

extractVars == <<extractIn, extractOut>>

\* The variables of the functions that are checked on their own.
funVars == <<hashVars, audioVars, extractVars>>

docVars == <<pdf_bytes, pdf_stat, renderedFrom>>

vars == <<inVars, fsVars, pc, loopVars, result, histVars, funVars, docVars>>

\* The arguments of a call of compute_slide_hash.
HashInput(slide, gs, pdf_mtime, pdf_size) ==
    [slide |-> slide, gs |-> gs, pdf_mtime |-> pdf_mtime, pdf_size |-> pdf_size]

NoHashInput == HashInput(ScriptSlide(1, "", None, None), Settings, DocMtime, DocSize)

NoResult == BuildResult(FALSE, "None", 0, 0, <<>>, "<not returned>")

NoPrev == [looped |-> FALSE, success |-> FALSE, generated |-> 0, failed |-> <<>>, paths |-> <<>>]

Snapshot(cd, od, files, out) == [cacheDir |-> cd, outDir |-> od, cache |-> files, output |-> out]

\* No call of create_audio_with_pauses is made.
NoAudioCall ==
    /\ audioIn = [text |-> <<>>, inline_pause |-> 0, slide_pause |-> 0, tts_ok |-> TRUE]
    /\ audioOut = <<>>

\* No call of extract_page_image is made.
NoExtractCall ==
    /\ extractIn = [page |-> 1, page_count |-> 1, dpi |-> DEFAULT_SETTINGS.image_dpi]
    /\ extractOut = <<>>

Init ==
    /\ pdfExists \in BOOLEAN
    /\ scriptExists \in BOOLEAN
    /\ script \in Scripts
    /\ doc = 1
    /\ pdf_bytes = 0
    /\ pdf_stat = 0
    /\ cacheDirExists \in BOOLEAN
    /\ outDirExists \in BOOLEAN
    /\ cache \in (IF cacheDirExists THEN SUBSET PoolClips ELSE {{}})
    /\ renderedFrom = [f \in cache |-> 1]
    /\ partial = {}
    /\ tempDir = {}
    /\ outputFile \in (IF outDirExists THEN {"absent", "written"} ELSE {"absent"})
    /\ pc = "idle"
    /\ slides = <<>>
    /\ i = 1
    /\ cached_count = 0
    /\ generated_count = 0
    /\ failed_slides = <<>>
    /\ final_clip_paths = <<>>
    /\ result = NoResult
    /\ atStart = Snapshot(cacheDirExists, outDirExists, cache, outputFile)
    /\ raised = <<>>
    /\ keptIdx = <<>>
    /\ gcRuns = 0
    /\ gcDeleted = {}
    /\ concatCalls = <<>>
    /\ pipelineCalls = <<>>
    /\ existed = <<>>
    /\ poolsStarted = FALSE
    /\ prev = NoPrev
    /\ hashA = NoHashInput
    /\ hashB = NoHashInput
    /\ hashOut = <<>>
    /\ NoAudioCall
    /\ NoExtractCall

(***************************************************************************)
(* The run: main() constructs the builder and runs build().                *)
(***************************************************************************)
\* build() returns `res`.
Return(res) == result' = res /\ pc' = "done"

\* PySlideSpeakerBuilder.__init__: PyMuPDFExtractor reads the document's bytes
\* (read_bytes raises out of the constructor when there is no document), then
\* CacheManager makes the cache directory.
Construct ==
    /\ pc = "idle"
    /\ IF ~pdfExists
       THEN /\ pc' = "crashed"
            /\ UNCHANGED cacheDirExists
       ELSE /\ pc' = "constructed"
            /\ cacheDirExists' = TRUE
    /\ UNCHANGED <<inVars, outDirExists, cache, tempDir, partial, outputFile, loopVars, result, histVars>>
    /\ pdf_bytes' = (IF pdfExists THEN doc ELSE pdf_bytes)
    /\ UNCHANGED <<pdf_stat, renderedFrom>>
    /\ UNCHANGED funVars

\* build() up to the slide loop: the checks of the inputs, the output
\* directory, the script, the executors and the counters.
BuildStart ==
    /\ pc = "constructed"
    /\ IF ~pdfExists
       THEN /\ Return(BuildResult(FALSE, "None", 0, 0, <<>>, "PDF file not found"))
            /\ UNCHANGED <<outDirExists, slides, poolsStarted>>
       ELSE IF ~scriptExists
       THEN /\ Return(BuildResult(FALSE, "None", 0, 0, <<>>, "Script file not found"))
            /\ UNCHANGED <<outDirExists, slides, poolsStarted>>
       ELSE /\ outDirExists' = TRUE
            /\ slides' = LoadSlides(script)
            /\ IF slides' = <<>>
               THEN /\ Return(BuildResult(FALSE, "None", 0, 0, <<>>, "No slides defined in script"))
                    /\ UNCHANGED poolsStarted
               ELSE /\ pc' = "loop"
                    /\ poolsStarted' = TRUE
                    /\ UNCHANGED result
    /\ i' = 1
    /\ cached_count' = 0
    /\ generated_count' = 0
    /\ failed_slides' = <<>>
    /\ final_clip_paths' = <<>>
    /\ UNCHANGED <<inVars, cacheDirExists, cache, tempDir, partial, outputFile>>
    /\ UNCHANGED <<atStart, raised, keptIdx, gcRuns, gcDeleted, concatCalls, pipelineCalls, existed, prev>>
    /\ pdf_stat' = (IF pc' = "loop" THEN doc ELSE pdf_stat)
    /\ UNCHANGED <<pdf_bytes, renderedFrom>>
    /\ UNCHANGED funVars

\* The slide the loop is at, its fingerprint and its clip.
CurSlide == slides[i]

CurHash == compute_slide_hash(CurSlide, Settings, MtimeOf(pdf_stat), SizeOf(pdf_stat))

CurClip == get_clip_path(CurHash)

\* A cache that never answers a hit.
CacheHit_never(files, clip_path) == FALSE

\* A hit only if the file is a complete clip.
CacheHit_verified(files, clip_path) == clip_path \in files /\ clip_path \notin partial

\* clip_path.exists()
CacheHit(files, clip_path) == clip_path \in files

\* The clip put at the head of the list.
Retain_prepend(paths, clip_path) == <<clip_path>> \o paths

\* final_clip_paths.append(clip_path)
Retain(paths, clip_path) == Append(paths, clip_path)

\* The loop left at the first slide that fails.
AfterFailure_break(k) == Len(slides) + 1

\* The loop's step after a slide that failed: `continue`.
AfterFailure(k) == k + 1

\* The check for an empty list left out.
NothingRetained_never(paths) == FALSE

\* `if not final_clip_paths`
NothingRetained(paths) == paths = <<>>

\* The slide is in the cache: counted, retained, not processed.
SlideCached ==
    /\ pc = "loop"
    /\ i <= Len(slides)
    /\ CacheHit(cache, CurClip)
    /\ cached_count' = cached_count + 1
    /\ final_clip_paths' = Retain(final_clip_paths, CurClip)
    /\ keptIdx' = Append(keptIdx, CurSlide.index)
    /\ existed' = Append(existed, CurClip \in cache)
    /\ i' = i + 1
    /\ UNCHANGED <<inVars, fsVars, pc, slides, generated_count, failed_slides, result>>
    /\ UNCHANGED <<atStart, raised, gcRuns, gcDeleted, concatCalls, pipelineCalls, poolsStarted, prev>>
    /\ UNCHANGED docVars
    /\ UNCHANGED funVars

\* The slide is not in the cache: _process_slide is called for it.
SlideMiss ==
    /\ pc = "loop"
    /\ i <= Len(slides)
    /\ ~CacheHit(cache, CurClip)
    /\ pc' = "audio"
    /\ pipelineCalls' = Append(pipelineCalls, CurSlide.index)
    /\ existed' = Append(existed, CurClip \in cache)
    /\ UNCHANGED <<inVars, fsVars, loopVars, result>>
    /\ UNCHANGED <<atStart, raised, keptIdx, gcRuns, gcDeleted, concatCalls, poolsStarted, prev>>
    /\ UNCHANGED docVars
    /\ UNCHANGED funVars

\* The failed step is tried again: nothing is recorded and the pipeline starts over.
SlideFailed_retry ==
    /\ pc' = "audio"
    /\ UNCHANGED <<raised, failed_slides, i>>
    /\ UNCHANGED <<slides, cached_count, generated_count, final_clip_paths, keptIdx>>

\* _process_slide raised: build()'s `except Exception` records the slide and
\* goes on with the next one.
SlideFailed ==
    /\ raised' = Append(raised, CurSlide.index)
    /\ failed_slides' = Append(failed_slides, CurSlide.index)
    /\ i' = AfterFailure(i)
    /\ pc' = "loop"
    /\ UNCHANGED <<slides, cached_count, generated_count, final_clip_paths, keptIdx>>

\* The generated slide is retained but not counted.
SlideGenerated_uncounted ==
    /\ final_clip_paths' = Retain(final_clip_paths, CurClip)
    /\ keptIdx' = Append(keptIdx, CurSlide.index)
    /\ i' = i + 1
    /\ pc' = "loop"
    /\ UNCHANGED <<slides, cached_count, generated_count, failed_slides, raised>>

\* _process_slide returned: the slide is counted as generated and retained.
SlideGenerated ==
    /\ generated_count' = generated_count + 1
    /\ final_clip_paths' = Retain(final_clip_paths, CurClip)
    /\ keptIdx' = Append(keptIdx, CurSlide.index)
    /\ i' = i + 1
    /\ pc' = "loop"
    /\ UNCHANGED <<slides, cached_count, failed_slides, raised>>

\* What synthesizing a slide's audio can come to: the composite audio file is
\* written; the speech engine or the loading of a segment raises, or there is
\* nothing to compose; write_audiofile raises and leaves nothing, or a part of
\* the file.
AudioOutcomes == {"ok", "synth_error", "write_error", "write_error_partial"}

\* create_audio_with_pauses, called by _process_slide ahead of its `try`: the
\* composite audio file is written into the cache directory, or the call
\* raises.  Its `finally` unlinks the segment files it made.
SynthesizeAudio ==
    /\ pc = "audio"
    /\ \E outcome \in AudioOutcomes :
          CASE outcome = "ok" ->
                 /\ cache' = cache \cup {AudioPath(CurHash)}
                 /\ pc' = "render"
                 /\ UNCHANGED <<loopVars, raised, keptIdx>>
            [] outcome = "write_error_partial" ->
                 /\ cache' = cache \cup {AudioPath(CurHash)}
                 /\ SlideFailed
            [] OTHER ->
                 /\ SlideFailed
                 /\ UNCHANGED cache
    /\ UNCHANGED <<inVars, cacheDirExists, outDirExists, tempDir, partial, outputFile, result>>
    /\ UNCHANGED <<atStart, gcRuns, gcDeleted, concatCalls, pipelineCalls, existed, poolsStarted, prev>>
    /\ UNCHANGED docVars
    /\ UNCHANGED funVars

\* f"{page:04d}"
Pad4(n) ==
    IF n < 0 THEN "-" \o (IF -n < 10 THEN "00" ELSE IF -n < 100 THEN "0" ELSE "") \o IntStr(-n)
    ELSE (IF n < 10 THEN "000" ELSE IF n < 100 THEN "00" ELSE IF n < 1000 THEN "0" ELSE "") \o IntStr(n)

\* image_path of create_slide_clip, in the temporary directory.
ImagePath(page) == "slide_" \o Pad4(page) \o ".png"

\* The record of the clips' sources once the clip of the slide the loop is at
\* is written: its page image is rendered from the bytes the extractor holds.
RenderedNow ==
    [f \in DOMAIN renderedFrom \cup {CurClip} |-> IF f = CurClip THEN pdf_bytes ELSE renderedFrom[f]]

\* What rendering a clip can come to: the clip is written; the page cannot be
\* extracted, and nothing or a part of the image is left; the encoder fails and
\* leaves nothing, or a part of the clip.
RenderOutcomes == {"ok", "extract_error", "extract_error_partial", "encode_error", "encode_error_partial"}

\* create_slide_clip, and _process_slide's `finally`, which unlinks the audio
\* file.  The page image is extracted ahead of create_slide_clip's `try`, whose
\* `finally` unlinks it.
RenderClip ==
    /\ pc = "render"
    /\ \E outcome \in RenderOutcomes :
          LET rest == cache \ {AudioPath(CurHash)}
              img  == ImagePath(CurSlide.page)
          IN  CASE outcome = "ok" ->
                     /\ cache' = rest \cup {CurClip}
                     /\ partial' = partial \ {CurClip}
                     /\ renderedFrom' = RenderedNow
                     /\ tempDir' = tempDir \ {img}
                     /\ SlideGenerated
                [] outcome = "encode_error_partial" ->
                     /\ cache' = rest \cup {CurClip}
                     /\ partial' = partial \cup {CurClip}
                     /\ renderedFrom' = RenderedNow
                     /\ tempDir' = tempDir \ {img}
                     /\ SlideFailed
                [] outcome = "encode_error" ->
                     /\ cache' = rest
                     /\ tempDir' = tempDir \ {img}
                     /\ UNCHANGED <<partial, renderedFrom>>
                     /\ SlideFailed
                [] outcome = "extract_error_partial" ->
                     /\ cache' = rest
                     /\ tempDir' = tempDir \cup {img}
                     /\ UNCHANGED <<partial, renderedFrom>>
                     /\ SlideFailed
                [] OTHER ->
                     /\ cache' = rest
                     /\ UNCHANGED <<tempDir, partial, renderedFrom>>
                     /\ SlideFailed
    /\ UNCHANGED <<inVars, cacheDirExists, outDirExists, outputFile, result>>
    /\ UNCHANGED <<atStart, gcRuns, gcDeleted, concatCalls, pipelineCalls, existed, poolsStarted, prev>>
    /\ UNCHANGED <<pdf_bytes, pdf_stat>>
    /\ UNCHANGED funVars

\* The loop left before the last slide.
LoopOver_early(k, n) == k > 1

\* The `for` loop over the n slides has gone through all of them.
LoopOver(k, n) == k > n

\* After the loop: cleanup_unused_clips, then the check that a clip is retained.
GarbageCollect ==
    /\ pc = "loop"
    /\ LoopOver(i, Len(slides))
    /\ cache' = cleanup_unused_clips(cache, final_clip_paths, AllHashes)
    /\ partial' = partial \cap cache'
    /\ gcRuns' = gcRuns + 1
    /\ gcDeleted' = cache \ cache'
    /\ IF NothingRetained(final_clip_paths)
       THEN /\ Return(BuildResult(FALSE, "None", 0, 0, failed_slides, "No clips were generated successfully"))
            /\ tempDir' = {}
       ELSE /\ pc' = "concat"
            /\ UNCHANGED <<result, tempDir>>
    /\ UNCHANGED <<inVars, cacheDirExists, outDirExists, outputFile, loopVars>>
    /\ UNCHANGED <<atStart, raised, keptIdx, concatCalls, pipelineCalls, existed, poolsStarted, prev>>
    /\ renderedFrom' = [f \in DOMAIN renderedFrom \cap cache' |-> renderedFrom[f]]
    /\ UNCHANGED <<pdf_bytes, pdf_stat>>
    /\ UNCHANGED funVars

\* The lines _concatenate_clips writes to the concat list file.
ConcatList(clip_paths) == [k \in 1..Len(clip_paths) |-> "file '" \o clip_paths[k] \o "'"]

\* _concatenate_clips in the executor, and build()'s return.  An empty list
\* returns at once; otherwise FFmpeg writes the output, or fails, and the
\* RuntimeError reaches build()'s `except Exception`.
Concatenate ==
    /\ pc = "concat"
    /\ \E ok \in (IF final_clip_paths = <<>> THEN {TRUE} ELSE BOOLEAN) :
          /\ concatCalls' = Append(concatCalls, [arg |-> final_clip_paths, lines |-> ConcatList(final_clip_paths), ok |-> ok])
          /\ IF ok
             THEN /\ outputFile' = (IF final_clip_paths = <<>> THEN outputFile ELSE "written")
                  /\ Return(BuildResult(TRUE, "output", cached_count, generated_count, failed_slides, "None"))
             ELSE /\ outputFile' \in {outputFile, "broken"}
                  /\ Return(BuildResult(FALSE, "None", 0, 0, <<>>, "FFmpeg failed"))
    /\ tempDir' = {}
    /\ UNCHANGED <<inVars, cacheDirExists, outDirExists, cache, partial, loopVars>>
    /\ UNCHANGED <<atStart, raised, keptIdx, gcRuns, gcDeleted, pipelineCalls, existed, poolsStarted, prev>>
    /\ UNCHANGED docVars
    /\ UNCHANGED funVars

\* The program is run again, on the same inputs and the cache as it was left.
NextRun ==
    /\ pc \in {"done", "crashed"}
    /\ pc' = "idle"
    /\ slides' = <<>>
    /\ i' = 1
    /\ cached_count' = 0
    /\ generated_count' = 0
    /\ failed_slides' = <<>>
    /\ final_clip_paths' = <<>>
    /\ result' = NoResult
    /\ atStart' = Snapshot(cacheDirExists, outDirExists, cache, outputFile)
    /\ raised' = <<>>
    /\ keptIdx' = <<>>
    /\ gcRuns' = 0
    /\ gcDeleted' = {}
    /\ concatCalls' = <<>>
    /\ pipelineCalls' = <<>>
    /\ existed' = <<>>
    /\ poolsStarted' = FALSE
    /\ prev' = [looped |-> gcRuns > 0, success |-> result.success, generated |-> generated_count,
                failed |-> failed_slides, paths |-> final_clip_paths]
    /\ UNCHANGED <<inVars, fsVars>>
    /\ pdf_bytes' = 0
    /\ pdf_stat' = 0
    /\ UNCHANGED renderedFrom
    /\ UNCHANGED funVars

\* Status 0 whatever the build returned.
main_return_zero(res) == 0

\* main()'s return after build(): 0 if result.success, else 1.
main_return(res) == IF res.success THEN 0 ELSE 1

\* The status the process ends with: main()'s return value, or 1 when the
\* constructor's exception leaves main() uncaught.
ExitStatus == IF pc = "crashed" THEN 1 ELSE main_return(result)

Next ==
    \/ Construct
    \/ BuildStart
    \/ SlideCached
    \/ SlideMiss
    \/ SynthesizeAudio
    \/ RenderClip
    \/ GarbageCollect
    \/ Concatenate
    \/ NextRun

Spec == Init /\ [][Next]_vars

(***************************************************************************)
(* One run during which the document is replaced by a newer version.       *)
(***************************************************************************)
\* The document file is overwritten by another program: a new version, with a
\* newer mtime and another size, is on disk.
ModifyDocument ==
    /\ pdfExists
    /\ doc < MaxVersions
    /\ doc' = doc + 1
    /\ UNCHANGED <<pdfExists, scriptExists, script, fsVars, pc, loopVars, result, histVars, funVars, docVars>>

DocNext ==
    \/ Construct
    \/ BuildStart
    \/ SlideCached
    \/ SlideMiss
    \/ SynthesizeAudio
    \/ RenderClip
    \/ GarbageCollect
    \/ Concatenate
    \/ ModifyDocument

DocSpec == Init /\ [][DocNext]_vars

(***************************************************************************)
(* The fingerprint function on its own: two calls of compute_slide_hash on *)
(* arguments drawn from bounded sets.                                      *)
(***************************************************************************)
\* The characters of the texts: a letter and the separator of the f-string.
Alphabet == {"a", "|"}

RECURSIVE Strs(_)
\* The strings over Alphabet of length at most n.
Strs(n) ==
    IF n = 0 THEN {""}
    ELSE LET shorter == Strs(n - 1)
         IN  shorter \cup {x \o c : x \in shorter, c \in Alphabet}

\* The slides the two calls are made on: a page, a text, a voice of the slide's
\* own or none, a rate of the slide's own or none.
HashSlides ==
    { ScriptSlide(page, text, voice, rate) :
        page \in {1, 2},
        text \in Strs(MaxStrLen),
        voice \in {None} \cup {Some(v) : v \in Strs(MaxStrLen)},
        rate \in {None, Some("+5%")} }

HashInputs == {HashInput(sl, Settings, DocMtime, DocSize) : sl \in HashSlides}

\* The twelve values the fingerprint is documented to be taken of.
HashedFields(x) ==
    << x.slide.page, x.slide.text,
       OrElse(x.slide.voice, x.gs.voice), OrElse(x.slide.rate, x.gs.rate),
       x.gs.inline_pause, x.gs.slide_pause, x.pdf_mtime, x.pdf_size,
       x.gs.image_dpi, x.gs.video_fps, x.gs.video_codec, x.gs.audio_codec >>

\* No build is running.
NoBuild ==
    /\ pdfExists = TRUE
    /\ scriptExists = TRUE
    /\ script = <<>>
    /\ doc = 1
    /\ pdf_bytes = 0
    /\ pdf_stat = 0
    /\ renderedFrom = [f \in {} |-> 1]
    /\ cacheDirExists = FALSE
    /\ outDirExists = FALSE
    /\ cache = {}
    /\ partial = {}
    /\ tempDir = {}
    /\ outputFile = "absent"
    /\ pc = "idle"
    /\ slides = <<>>
    /\ i = 1
    /\ cached_count = 0
    /\ generated_count = 0
    /\ failed_slides = <<>>
    /\ final_clip_paths = <<>>
    /\ result = NoResult
    /\ atStart = Snapshot(FALSE, FALSE, {}, "absent")
    /\ raised = <<>>
    /\ keptIdx = <<>>
    /\ gcRuns = 0
    /\ gcDeleted = {}
    /\ concatCalls = <<>>
    /\ pipelineCalls = <<>>
    /\ existed = <<>>
    /\ poolsStarted = FALSE
    /\ prev = NoPrev

HashInit ==
    /\ NoBuild
    /\ NoAudioCall
    /\ NoExtractCall
    /\ hashA \in HashInputs
    /\ hashB \in HashInputs
    /\ hashOut = <<>>

\* compute_slide_hash is called on each of the two.
HashBoth ==
    /\ hashOut = <<>>
    /\ hashOut' = << compute_slide_hash(hashA.slide, hashA.gs, hashA.pdf_mtime, hashA.pdf_size),
                     compute_slide_hash(hashB.slide, hashB.gs, hashB.pdf_mtime, hashB.pdf_size) >>
    /\ UNCHANGED <<inVars, fsVars, pc, loopVars, result, histVars, hashA, hashB, audioVars, extractVars, docVars>>

HashNext == HashBoth

HashSpec == HashInit /\ [][HashNext]_vars

(***************************************************************************)
(* The fingerprint function on two arguments of which the second is the    *)
(* first with one argument field replaced.                                 *)
(***************************************************************************)
\* x with one field of the slide, of the settings or of the document's stat
\* replaced by another value of that field.
OneFieldVariants(x) ==
    {[x EXCEPT !.slide.page = v] : v \in {1, 2, 12}}
    \cup {[x EXCEPT !.slide.text = v] : v \in Strs(MaxStrLen)}
    \cup {[x EXCEPT !.slide.voice = v] : v \in {None, Some("a"), Some("|")}}
    \cup {[x EXCEPT !.slide.rate = v] : v \in {None, Some("+5%"), Some("-5%")}}
    \cup {[x EXCEPT !.gs.voice = v] : v \in {DEFAULT_SETTINGS.voice, "a"}}
    \cup {[x EXCEPT !.gs.rate = v] : v \in {DEFAULT_SETTINGS.rate, "+5%"}}
    \cup {[x EXCEPT !.gs.inline_pause = v] : v \in 0..3}
    \cup {[x EXCEPT !.gs.slide_pause = v] : v \in 0..2}
    \cup {[x EXCEPT !.pdf_mtime = v] : v \in {DocMtime, DocMtime + 1, 27}}
    \cup {[x EXCEPT !.pdf_size = v] : v \in {DocSize, DocSize + 1, 19}}
    \cup {[x EXCEPT !.gs.image_dpi = v] : v \in {DEFAULT_SETTINGS.image_dpi, 72}}
    \cup {[x EXCEPT !.gs.video_fps = v] : v \in {DEFAULT_SETTINGS.video_fps, 30}}
    \cup {[x EXCEPT !.gs.video_codec = v] : v \in {DEFAULT_SETTINGS.video_codec, "mpeg4"}}
    \cup {[x EXCEPT !.gs.audio_codec = v] : v \in {DEFAULT_SETTINGS.audio_codec, "mp3"}}

FieldInit ==
    /\ NoBuild
    /\ NoAudioCall
    /\ NoExtractCall
    /\ hashA \in HashInputs
    /\ hashB \in OneFieldVariants(hashA)
    /\ hashOut = <<>>

FieldSpec == FieldInit /\ [][HashNext]_vars

(***************************************************************************)
(* The fingerprint function on slides with and without a voice and a rate  *)
(* of their own, under global settings of several voices and rates.        *)
(***************************************************************************)
\* The voice and the rate _process_slide passes to create_audio_with_pauses.
TtsVoice(slide, gs) == OrElse(slide.voice, gs.voice)

TtsRate(slide, gs) == OrElse(slide.rate, gs.rate)

OverrideVoices == {"v", "w"}

OverrideRates == {"+0%", "+5%"}

\* Slides whose voice and rate are absent, empty or set, under global settings
\* whose voice and rate vary.
OverrideInputs ==
    { HashInput(ScriptSlide(1, text, voice, rate), [Settings EXCEPT !.voice = gv, !.rate = gr], DocMtime, DocSize) :
        text \in {"a", "b"},
        voice \in {None, Some("")} \cup {Some(v) : v \in OverrideVoices},
        rate \in {None, Some("+5%")},
        gv \in OverrideVoices,
        gr \in OverrideRates }

OverrideInit ==
    /\ NoBuild
    /\ NoAudioCall
    /\ NoExtractCall
    /\ hashA \in OverrideInputs
    /\ hashB \in OverrideInputs
    /\ hashOut = <<>>

OverrideSpec == OverrideInit /\ [][HashNext]_vars

(***************************************************************************)
(* create_audio_with_pauses on its own: one call on a narration text, the  *)
(* two pauses and a speech engine that works or raises.                    *)
(***************************************************************************)
\* A narration text is a sequence of tokens: a letter, a blank, the pause marker.
Marker == "[pause]"

TextTokens == {"a", " ", Marker}

Texts == UNION {[1..n -> TextTokens] : n \in 0..MaxTextLen}

RECURSIVE split(_)
\* text.split("[pause]"): the pieces between the markers, empty ones included.
split(text) ==
    IF \A k \in 1..Len(text) : text[k] # Marker
    THEN <<text>>
    ELSE LET k == CHOOSE m \in 1..Len(text) : text[m] = Marker /\ \A n \in 1..(m - 1) : text[n] # Marker
         IN  <<SubSeq(text, 1, k - 1)>> \o split(SubSeq(text, k + 1, Len(text)))

\* segment.strip(): the blanks at both ends removed.
strip(segment) ==
    LET inked == {k \in 1..Len(segment) : segment[k] # " "}
    IN  IF inked = {} THEN <<>>
        ELSE SubSeq(segment, CHOOSE a \in inked : \A b \in inked : a <= b,
                             CHOOSE a \in inked : \A b \in inked : a >= b)

\* The clips that are composed: the audio of a segment, and AudioClip(lambda t: 0, duration).
Speech(segment) == [kind |-> "speech", text |-> segment, duration |-> 0]

Silence(duration) == [kind |-> "silence", text |-> <<>>, duration |-> duration]

RECURSIVE AudioLoop(_, _, _, _, _)
\* The loop over enumerate(segments), from the k-th segment (whose index i is
\* k - 1) on: an empty segment is skipped; otherwise its temporary file is
\* noted, the segment is synthesized (the engine may raise) and loaded, and a
\* silence follows it if i < len(segments) - 1 and inline_pause > 0.
AudioLoop(segments, k, inline_pause, tts_ok, acc) ==
    IF k > Len(segments) THEN acc
    ELSE LET segment == strip(segments[k])
         IN  IF segment = <<>> THEN AudioLoop(segments, k + 1, inline_pause, tts_ok, acc)
             ELSE LET files == Append(acc.temp_files, k - 1)
                      spoken == Append(acc.audio_clips, Speech(segment))
                      paused == IF k - 1 < Len(segments) - 1 /\ inline_pause > 0
                                THEN Append(spoken, Silence(inline_pause)) ELSE spoken
                  IN  IF ~tts_ok
                      THEN [acc EXCEPT !.temp_files = files, !.raised = TRUE]
                      ELSE AudioLoop(segments, k + 1, inline_pause, tts_ok,
                                     [acc EXCEPT !.temp_files = files, !.audio_clips = paused])

\* AudioProcessor.create_audio_with_pauses: what the call comes to.  After the
\* loop the trailing silence is appended if slide_pause > 0; then an empty list
\* of clips raises ValueError; otherwise the clips are composed in their order
\* and written to output_path.  The `finally` unlinks every temporary file noted.
create_audio_with_pauses(text, inline_pause, slide_pause, tts_ok) ==
    LET looped == AudioLoop(split(text), 1, inline_pause, tts_ok, [audio_clips |-> <<>>, temp_files |-> <<>>, raised |-> FALSE])
        audio_clips == IF ~looped.raised /\ slide_pause > 0
                       THEN Append(looped.audio_clips, Silence(slide_pause)) ELSE looped.audio_clips
        raises == looped.raised \/ audio_clips = <<>>
        unlinked == Names(looped.temp_files)
    IN  [raised |-> raises, audio_clips |-> audio_clips, written |-> ~raises,
         temp_left |-> Names(looped.temp_files) \ unlinked]

\* The arguments of the call: a text, inline_pause and slide_pause in halves of
\* a second, and whether the speech engine works.
AudioInputs ==
    [text : Texts, inline_pause : {0, 2}, slide_pause : {0, 1}, tts_ok : BOOLEAN]

\* No call of compute_slide_hash is made.
NoHashCall ==
    /\ hashA = NoHashInput
    /\ hashB = NoHashInput
    /\ hashOut = <<>>

AudioInit ==
    /\ NoBuild
    /\ NoHashCall
    /\ audioIn \in AudioInputs
    /\ audioOut = <<>>
    /\ NoExtractCall

\* The call is made.
CallAudio ==
    /\ audioOut = <<>>
    /\ audioOut' = <<create_audio_with_pauses(audioIn.text, audioIn.inline_pause, audioIn.slide_pause, audioIn.tts_ok)>>
    /\ UNCHANGED <<inVars, fsVars, pc, loopVars, result, histVars, hashVars, audioIn, extractVars, docVars>>

AudioNext == CallAudio

AudioSpec == AudioInit /\ [][AudioNext]_vars

(***************************************************************************)
(* extract_page_image on its own: one call on a page number, for a         *)
(* document of some number of pages.                                       *)
(***************************************************************************)
RECURSIVE load_page(_, _)
\* doc[page_id] of PyMuPDF for page_id < page_count: a negative page_id counts
\* backwards from the end (page_count is added until it is not negative).
load_page(page_id, page_count) ==
    IF page_id < 0 THEN load_page(page_id + page_count, page_count) ELSE page_id

\* PyMuPDFExtractor.extract_page_image: ValueError if page - 1 >= len(doc);
\* otherwise doc[page - 1] is rendered at dpi / 72 and saved to output_path.
\* `rendered` is the 1-based number of the page of the document that was
\* rendered, 0 if none was.
extract_page_image(page, page_count, dpi) ==
    IF page - 1 >= page_count
    THEN [raised |-> TRUE, error |-> "out of range", rendered |-> 0, dpi |-> 0, written |-> FALSE]
    ELSE [raised |-> FALSE, error |-> "None", rendered |-> load_page(page - 1, page_count) + 1,
          dpi |-> dpi, written |-> TRUE]

\* The arguments of the call: page numbers below, in and above the range of the
\* document's pages.
ExtractInputs ==
    [page : (0 - 2 * MaxPages)..(2 * MaxPages + 1), page_count : 1..MaxPages, dpi : {72, DEFAULT_SETTINGS.image_dpi}]

ExtractInit ==
    /\ NoBuild
    /\ NoHashCall
    /\ NoAudioCall
    /\ extractIn \in ExtractInputs
    /\ extractOut = <<>>

\* The call is made.
CallExtract ==
    /\ extractOut = <<>>
    /\ extractOut' = <<extract_page_image(extractIn.page, extractIn.page_count, extractIn.dpi)>>
    /\ UNCHANGED <<inVars, fsVars, pc, loopVars, result, histVars, hashVars, audioVars, extractIn, docVars>>

ExtractNext == CallExtract

ExtractSpec == ExtractInit /\ [][ExtractNext]_vars

(***************************************************************************)
(* Properties of the build.                                                *)
(***************************************************************************)
\* The clip path build() resolves for each slide a script can hold.
PoolClipOf == [s \in SlidePool |-> get_clip_path(compute_slide_hash(s, Settings, DocMtime, DocSize))]

\* The clip of the slide with (0-based) index `idx` of the script.
ClipOf(idx) == PoolClipOf[script[idx + 1]]

\* The clips of all slides but the one with index `idx`, in script order.
ClipsWithout(idx) ==
    [k \in 1..(Len(slides) - 1) |-> IF k <= idx THEN ClipOf(k - 1) ELSE ClipOf(k)]

\* build() has returned after a slide loop.
LoopReturned == pc = "done" /\ gcRuns > 0

\* C1: partial-failure isolation.  When exactly one slide's pipeline raised in a
\* build of more than one slide, the build has recorded exactly that index as
\* failed, hands concatenation the clips of all the other slides in script
\* order, once, and, if concatenation succeeds, returns success with
\* failed_slides the list of that one index.
C1_PartialFailureIsolation ==
    (LoopReturned /\ Len(slides) > 1 /\ Len(raised) = 1) =>
        /\ failed_slides = raised
        /\ final_clip_paths = ClipsWithout(raised[1])
        /\ Len(concatCalls) = 1
        /\ concatCalls[1].arg = ClipsWithout(raised[1])
        /\ concatCalls[1].ok =>
              /\ result.success
              /\ result.failed_slides = <<raised[1]>>

\* A build of two slides whose second slide failed, and which succeeded.
C1_Witness ==
    /\ LoopReturned
    /\ Len(slides) = 2
    /\ raised = <<1>>
    /\ result.success

\* C2: order preservation.  At every moment of a build the retained clip paths
\* are those of slides of strictly increasing index, each path the clip of its
\* slide, whatever mix of cache hits, generated and failed slides; and the list
\* handed to _concatenate_clips, like the lines of the concat list file, is
\* that list in that order.
C2_OrderPreserved ==
    /\ Len(keptIdx) = Len(final_clip_paths)
    /\ \A a, b \in 1..Len(keptIdx) : a < b => keptIdx[a] < keptIdx[b]
    /\ \A a \in 1..Len(keptIdx) : final_clip_paths[a] = ClipOf(keptIdx[a])
    /\ \A c \in 1..Len(concatCalls) :
          /\ concatCalls[c].arg = final_clip_paths
          /\ Len(concatCalls[c].lines) = Len(keptIdx)
          /\ \A a \in 1..Len(keptIdx) :
                concatCalls[c].lines[a] = "file '" \o ClipOf(keptIdx[a]) \o "'"

\* Concatenation was handed a cache hit and a generated clip of two different slides.
C2_Witness ==
    /\ concatCalls # <<>>
    /\ cached_count = 1
    /\ generated_count = 1
    /\ final_clip_paths[1] # final_clip_paths[2]

\* C3: garbage collection retains what the build uses.  cleanup_unused_clips
\* unlinks no clip of a slide that was a cache hit or was generated in this
\* build, and every path of the list handed to concatenation exists when
\* concatenation starts.
C3_GCRetainsReferenced ==
    /\ \A a \in 1..Len(keptIdx) : ClipOf(keptIdx[a]) \notin gcDeleted
    /\ pc = "concat" => \A a \in 1..Len(final_clip_paths) : final_clip_paths[a] \in cache

\* Garbage collection unlinked something, and a cache hit and a generated clip
\* go to concatenation.
C3_Witness ==
    /\ pc = "concat"
    /\ gcDeleted # {}
    /\ cached_count >= 1
    /\ generated_count >= 1

\* C4: garbage collection is complete.  Once cleanup_unused_clips has run in a
\* build, every clip_*.mp4 of the cache directory is a path of the build's
\* cached or generated slides; so no clip of a fingerprint the slide list does
\* not reference is left.
C4_GCComplete ==
    gcRuns > 0 =>
        /\ GlobClips(cache, PoolHashes) \subseteq Names(final_clip_paths)
        /\ \A h \in PoolHashes :
              (\A k \in 1..Len(slides) : ClipOf(k - 1) # get_clip_path(h))
                  => get_clip_path(h) \notin cache

\* A successful build whose cache held, at its start, a clip no slide references.
C4_Witness ==
    /\ LoopReturned
    /\ result.success
    /\ \E f \in atStart.cache : \A k \in 1..Len(slides) : ClipOf(k - 1) # f

\* C5, as stated: the build after a build that returned success finds every
\* slide in the cache, generates nothing, runs no pipeline, and retains the
\* clips the first build retained.
C5_IdempotentAfterAnyBuild ==
    (prev.success /\ gcRuns > 0) =>
        /\ cached_count = Len(slides)
        /\ generated_count = 0
        /\ pipelineCalls = <<>>
        /\ final_clip_paths = prev.paths

\* C5, amended: the build after a build whose slide loop ended with no failed
\* slide calls the pipeline for no slide; when its own loop has ended, every
\* slide is counted as cached, none as generated, the retained clips are the
\* first build's, in the same order, and they are what concatenation is handed;
\* a successful second build reports these counts.
C5_IdempotentAfterCleanBuild ==
    (prev.looped /\ prev.failed = <<>>) =>
        /\ pipelineCalls = <<>>
        /\ generated_count = 0
        /\ gcRuns > 0 =>
              /\ cached_count = Len(slides)
              /\ final_clip_paths = prev.paths
              /\ \A c \in 1..Len(concatCalls) : concatCalls[c].arg = prev.paths
        /\ (pc = "done" /\ result.success) =>
              /\ result.cached_count = Len(slides)
              /\ result.generated_count = 0

\* The second of two successful builds of two slides, the first of which
\* generated both clips.
C5_Witness ==
    /\ prev.looped
    /\ prev.failed = <<>>
    /\ prev.generated = 2
    /\ LoopReturned
    /\ result.success
    /\ cached_count = 2

\* C6: zero-success failure.  When the pipeline of every slide of a build raised,
\* _concatenate_clips is never called, the output file is as it was, and build()
\* returns success = false with the message that no clip was generated.
C6_ZeroSuccessFailure ==
    (Len(slides) > 0 /\ Len(raised) = Len(slides)) =>
        /\ concatCalls = <<>>
        /\ outputFile = atStart.output
        /\ pc \notin {"concat"}
        /\ pc = "done" =>
              /\ ~result.success
              /\ result.error_message = "No clips were generated successfully"

\* A build of two slides, both of which failed, has returned.
C6_Witness ==
    /\ pc = "done"
    /\ Len(slides) = 2
    /\ Len(raised) = 2

\* C7: empty-input rejection.  A run on a script of zero slides returns
\* success = false and has changed nothing: no directory made, the cache and
\* the output as they were, no garbage collection, no executor, no pipeline.
C7_EmptyInputNoSideEffects ==
    (pc = "done" /\ pdfExists /\ scriptExists /\ script = <<>>) =>
        /\ ~result.success
        /\ cacheDirExists = atStart.cacheDir
        /\ outDirExists = atStart.outDir
        /\ cache = atStart.cache
        /\ outputFile = atStart.output
        /\ gcRuns = 0
        /\ ~poolsStarted
        /\ pipelineCalls = <<>>

\* C8: input validation.  A run with the document or the script missing ends by
\* build() returning success = false with the message that names the missing
\* file, no slide processed and nothing created.
C8_MissingInputRejected ==
    (pc \in {"done", "crashed"} /\ (~pdfExists \/ ~scriptExists)) =>
        /\ pc = "done"
        /\ ~result.success
        /\ result.error_message = (IF ~pdfExists THEN "PDF file not found" ELSE "Script file not found")
        /\ pipelineCalls = <<>>
        /\ ~poolsStarted
        /\ cacheDirExists = atStart.cacheDir
        /\ outDirExists = atStart.outDir

\* C9: the result build() returns once slide processing has started carries the
\* cache-hit count, the generated count and the failed indices of the build, on
\* every return path.
C9_ResultEnumeratesOutcomes ==
    (pc = "done" /\ poolsStarted) =>
        /\ result.cached_count = cached_count
        /\ result.generated_count = generated_count
        /\ result.failed_slides = failed_slides

(***************************************************************************)
(* Properties of the fingerprint.                                          *)
(***************************************************************************)
\* C10: the fingerprint is injective on its inputs.  Two calls of
\* compute_slide_hash return the same value exactly when their twelve hashed
\* values (page, text, effective voice, effective rate, the pauses, the
\* document's mtime and size, DPI, frame rate and the codecs) are equal one by one.
C10_FingerprintInjective ==
    hashOut # <<>> => ((hashOut[1] = hashOut[2]) <=> (HashedFields(hashA) = HashedFields(hashB)))

\* The places of the twelve hashed values at which two arguments differ.
DifferingFields(x, y) == {k \in 1..12 : HashedFields(x)[k] # HashedFields(y)[k]}

\* C11: the fingerprint is a function of its arguments, and it is sensitive to
\* each hashed value on its own.  Two calls on the same arguments return the same
\* value; two calls whose arguments differ in exactly one of the twelve hashed
\* values (the eleven others equal) return different values.
C11_SingleFieldSensitive ==
    hashOut # <<>> =>
        /\ (hashA = hashB => hashOut[1] = hashOut[2])
        /\ (Cardinality(DifferingFields(hashA, hashB)) = 1 => hashOut[1] # hashOut[2])

\* The two calls were made on arguments that differ in the document's size only.
C11_Witness ==
    /\ hashOut # <<>>
    /\ DifferingFields(hashA, hashB) = {8}
    /\ hashOut[1] # hashOut[2]

\* x and y are equal in every hashed value other than the voice and the rate.
SameButVoiceRate(x, y) == DifferingFields(x, y) \subseteq {3, 4}

\* x states a voice (a rate) of its own, y states none and is built under global
\* settings whose voice (rate) is the one x states.
VoiceResolved(x, y) ==
    /\ x.slide.voice \notin {None, Some("")}
    /\ y.slide.voice = None
    /\ y.gs.voice = x.slide.voice[1]

RateResolved(x, y) ==
    /\ x.slide.rate # None
    /\ y.slide.rate = None
    /\ y.gs.rate = x.slide.rate[1]

\* C12: the fingerprint depends on the per-slide and global voice and rate only
\* through the effective values _process_slide passes to the speech engine.  Two
\* calls that agree on the ten other hashed values and on the voice and rate
\* passed to the engine return the same fingerprint; in particular a slide that
\* states voice (rate) V and the same slide stating none under global settings
\* whose voice (rate) is V, the other of the two being effectively equal.
C12_ResolvedOverrideEquivalence ==
    hashOut # <<>> /\ SameButVoiceRate(hashA, hashB) =>
        LET sameVoice == TtsVoice(hashA.slide, hashA.gs) = TtsVoice(hashB.slide, hashB.gs)
            sameRate  == TtsRate(hashA.slide, hashA.gs) = TtsRate(hashB.slide, hashB.gs)
        IN  /\ (sameVoice /\ sameRate => hashOut[1] = hashOut[2])
            /\ (VoiceResolved(hashA, hashB) /\ sameRate => hashOut[1] = hashOut[2])
            /\ (RateResolved(hashA, hashB) /\ sameVoice => hashOut[1] = hashOut[2])
            /\ (VoiceResolved(hashA, hashB) /\ RateResolved(hashA, hashB) => hashOut[1] = hashOut[2])

\* A slide stating a voice of its own under a different global voice, and the
\* same slide stating none under the global voice the first states, were hashed.
C12_Witness ==
    /\ hashOut # <<>>
    /\ SameButVoiceRate(hashA, hashB)
    /\ VoiceResolved(hashA, hashB)
    /\ hashA.gs.voice # hashB.gs.voice
    /\ RateResolved(hashA, hashB)
    /\ hashOut[1] = hashOut[2]

(***************************************************************************)
(* Properties of the slide loop and of the slide pipeline.                 *)
(***************************************************************************)
\* How often a value occurs in a sequence.
Count(seq, v) == Cardinality({k \in 1..Len(seq) : seq[k] = v})

\* C13: cache hit/miss dispatch.  The k-th slide checked is the slide of index
\* k - 1.  If its clip file existed at the check, the slide is counted as
\* cached, its path is in the retained list at the slide's place, and
\* _process_slide (the only caller of the speech engine, the page extractor and
\* the encoder) is not called for it; if no file existed, _process_slide is
\* called exactly once for it.  A pipeline stage runs only for the slide checked
\* last, and only if that check found no file.
C13_CacheDispatch ==
    /\ \A k \in 1..Len(existed) :
          IF existed[k]
          THEN /\ Count(pipelineCalls, k - 1) = 0
               /\ \E j \in 1..Len(keptIdx) : keptIdx[j] = k - 1 /\ final_clip_paths[j] = ClipOf(k - 1)
          ELSE Count(pipelineCalls, k - 1) = 1
    /\ cached_count = Count(existed, TRUE)
    /\ Len(pipelineCalls) = Count(existed, FALSE)
    /\ pc \in {"audio", "render"} =>
          /\ Len(existed) = i
          /\ ~existed[i]
          /\ pipelineCalls[Len(pipelineCalls)] = CurSlide.index

\* A build has returned whose first slide found no file and was generated, and
\* whose second slide found a file that was in the cache when the build started.
C13_Witness ==
    /\ LoopReturned
    /\ existed = <<FALSE, TRUE>>
    /\ pipelineCalls = <<0>>
    /\ cached_count = 1
    /\ generated_count = 1
    /\ ClipOf(1) \in atStart.cache

\* The composite audio file of each slide of SlidePool.
PoolAudioOf == [s \in SlidePool |-> AudioPath(compute_slide_hash(s, Settings, DocMtime, DocSize))]

\* The slides whose pipeline was entered and has exited.
Exited ==
    {pipelineCalls[k] : k \in 1..(IF pc \in {"audio", "render"} THEN Len(pipelineCalls) - 1 ELSE Len(pipelineCalls))}

\* The files the pipeline in progress has made and not yet removed: the
\* composite audio file, once it is written and the clip is being rendered.
InProgressFiles == IF pc = "render" THEN {AudioPath(CurHash)} ELSE {}

\* C17: temporary-artifact cleanup.  Once the pipeline of a slide has exited,
\* by success or by a failure at any step, neither the slide's composite audio
\* file is in the cache directory nor its page image in the temporary
\* directory (files of the pipeline in progress apart).
C17_TempArtifactsRemoved ==
    \A idx \in Exited :
        /\ PoolAudioOf[script[idx + 1]] \notin cache \ InProgressFiles
        /\ ImagePath(script[idx + 1].page) \notin tempDir

\* C18: the garbage-collection barrier.  cleanup_unused_clips runs at most
\* once in a build; when it has run, every slide of the list has been checked
\* and is retained (cached or generated) or failed, and no pipeline stage is in
\* progress or starts afterwards; _concatenate_clips is called only after it.
C18_GCBarrier ==
    /\ gcRuns <= 1
    /\ gcRuns = 1 =>
          /\ pc \in {"concat", "done"}
          /\ Len(existed) = Len(slides)
          /\ \A k \in 1..Len(slides) : (k - 1) \in Names(keptIdx) \cup Names(raised)
    /\ pc \in {"audio", "render"} => gcRuns = 0
    /\ concatCalls # <<>> => gcRuns = 1

\* cleanup_unused_clips has run and unlinked a file in a build of two slides
\* in which a pipeline ran, and concatenation is still to come.
C18_Witness ==
    /\ gcRuns = 1
    /\ gcDeleted # {}
    /\ pc = "concat"
    /\ concatCalls = <<>>
    /\ Len(slides) = 2
    /\ pipelineCalls # <<>>

\* Where the slide of index idx is: not yet checked (Pending), found in the
\* cache, in the call of create_audio_with_pauses, in the call of
\* create_slide_clip, returned from _process_slide, or raised out of it.
SlideState(idx) ==
    IF Count(pipelineCalls, idx) = 0
    THEN IF idx + 1 <= Len(existed) /\ existed[idx + 1] THEN "Cached" ELSE "Pending"
    ELSE IF idx \in Names(raised) THEN "Failed"
    ELSE IF idx \in Names(keptIdx) THEN "Done"
    ELSE IF pc = "audio" THEN "SynthesizingAudio"
    ELSE IF pc = "render" THEN "RenderingClip"
    ELSE "Lost"

\* The moves of a slide within a build.
PipelineMoves ==
    { <<"Pending", "Cached">>, <<"Pending", "SynthesizingAudio">>,
      <<"SynthesizingAudio", "RenderingClip">>, <<"SynthesizingAudio", "Failed">>,
      <<"RenderingClip", "Done">>, <<"RenderingClip", "Failed">> }

\* C19: the per-slide pipeline state machine.  Within a build a slide not found
\* in the cache moves only from Pending to SynthesizingAudio, from there to
\* RenderingClip or Failed, and from RenderingClip to Done or Failed; Done and
\* Failed are left by no step.  The clip is rendered only with the composite
\* audio file written; _process_slide is called at most once for a slide; and
\* the slides that raised are the slides build() has recorded as failed, none of
\* them retained.
C19_PipelineStateMachine ==
    /\ [](/\ pc = "render" => AudioPath(CurHash) \in cache
          /\ \A idx \in 0..(Len(slides) - 1) :
                /\ Count(pipelineCalls, idx) <= 1
                /\ SlideState(idx) # "Lost"
                /\ SlideState(idx) = "Failed" => idx \notin Names(keptIdx)
          /\ failed_slides = raised)
    /\ [][pc' # "idle" =>
            \A idx \in 0..(Len(slides') - 1) :
                \/ SlideState(idx)' = SlideState(idx)
                \/ <<SlideState(idx), SlideState(idx)'>> \in PipelineMoves]_vars

\* A build of two slides has returned in which the pipeline of the first slide
\* came to Done and that of the second to Failed.
C19_Witness ==
    /\ LoopReturned
    /\ Len(slides) = 2
    /\ SlideState(0) = "Done"
    /\ SlideState(1) = "Failed"

\* C20: slide-specific cache paths.  Two slides of different index of a
\* build's list never have the same clip path, and no two calls of
\* _process_slide in a build are for the same clip path.
C20_DistinctSlidesDistinctPaths ==
    /\ \A a, b \in 1..Len(slides) : a # b => ClipOf(a - 1) # ClipOf(b - 1)
    /\ \A j, k \in 1..Len(pipelineCalls) :
          j # k => ClipOf(pipelineCalls[j]) # ClipOf(pipelineCalls[k])

\* C22: no clip of a failed render reaches the output.  No path of the
\* retained list, and no path handed to _concatenate_clips, is the part of a
\* clip that a failed encoding left at the cache path: such a file is neither
\* a cache hit nor concatenated.
C22_NoFailedRenderInOutput ==
    /\ \A k \in 1..Len(final_clip_paths) : final_clip_paths[k] \notin partial
    /\ \A c \in 1..Len(concatCalls) :
          \A k \in 1..Len(concatCalls[c].arg) : concatCalls[c].arg[k] \notin partial

\* The retained clips this build generated itself: the places of the retained
\* list whose slide went through the pipeline.
GeneratedPlaces == {j \in 1..Len(keptIdx) : keptIdx[j] \in Names(pipelineCalls)}

\* C23: every clip a build generated is stored under a fingerprint whose
\* (mtime, size) pair describes the document version its page image was
\* rendered from, whenever the document file is modified: the version the
\* build's stat saw is the version of the bytes behind each generated clip.
C23_FingerprintMatchesBytes ==
    \A j \in GeneratedPlaces : renderedFrom[final_clip_paths[j]] = pdf_stat

\* The slides the loop is through with: those before the place it is at.
Processed == {slides[k].index : k \in 1..(i - 1)}

\* The three outcomes of a slide: retained without the pipeline, retained
\* after the pipeline, recorded as failed.
CachedIdx == Names(keptIdx) \ Names(pipelineCalls)

GeneratedIdx == Names(keptIdx) \cap Names(pipelineCalls)

FailedIdx == Names(failed_slides)

\* C24: the accounting of the slide loop.  After k slides are processed (the
\* loop is at place k + 1), cached_count + generated_count +
\* len(failed_slides) is k and len(final_clip_paths) is cached_count +
\* generated_count; each processed slide index is in exactly one of the three
\* outcomes, whose sizes are the three counts; failed_slides is strictly
\* increasing; and the three numbers of a successful BuildResult sum to the
\* number of slides.
C24_Accounting ==
    /\ i - 1 <= Len(slides)
    /\ cached_count + generated_count + Len(failed_slides) = i - 1
    /\ Len(final_clip_paths) = cached_count + generated_count
    /\ CachedIdx \cup GeneratedIdx \cup FailedIdx = Processed
    /\ FailedIdx \cap Names(keptIdx) = {}
    /\ Cardinality(CachedIdx) = cached_count
    /\ Cardinality(GeneratedIdx) = generated_count
    /\ Cardinality(FailedIdx) = Len(failed_slides)
    /\ \A a, b \in 1..Len(failed_slides) : a < b => failed_slides[a] < failed_slides[b]
    /\ (pc = "done" /\ result.success) =>
          result.cached_count + result.generated_count + Len(result.failed_slides) = Len(slides)

\* A build of two slides has returned success: the first slide's pipeline
\* raised, the second slide was generated.
C24_Witness ==
    /\ pc = "done"
    /\ result.success
    /\ Len(slides) = 2
    /\ result.failed_slides = <<0>>
    /\ result.generated_count = 1
    /\ result.cached_count = 0

(***************************************************************************)
(* Properties of main().                                                   *)
(***************************************************************************)
\* C14: the exit status.  When the run has ended, the status is 0 exactly when
\* build() returned success, also with failed slides; then FFmpeg has written
\* the output.  It is not 0 when an input is missing, when the script has no
\* slide, when the pipeline of every slide raised, and when the concatenation
\* failed.
C14_ExitStatus ==
    pc \in {"done", "crashed"} =>
        /\ (ExitStatus = 0 <=> (pc = "done" /\ result.success))
        /\ ExitStatus = 0 => (concatCalls # <<>> /\ concatCalls[1].ok /\ outputFile = "written")
        /\ (~pdfExists \/ ~scriptExists) => ExitStatus # 0
        /\ script = <<>> => ExitStatus # 0
        /\ (gcRuns > 0 /\ Len(raised) = Len(slides)) => ExitStatus # 0
        /\ (concatCalls # <<>> /\ ~concatCalls[1].ok) => ExitStatus # 0

\* A build with a failed slide has returned success, and the status is 0.
C14_Witness ==
    /\ pc = "done"
    /\ result.success
    /\ result.failed_slides # <<>>
    /\ ExitStatus = 0

(***************************************************************************)
(* Properties of create_audio_with_pauses.                                 *)
(***************************************************************************)
\* The text has no segment to synthesize: it is empty, or made of blanks and
\* pause markers only.
NothingToSay(text) == \A k \in 1..Len(text) : text[k] \in {" ", Marker}

\* C15: the synthesis of a narration with no segment to synthesize (an empty
\* text, blanks, pause markers only) raises, whatever inline_pause and
\* slide_pause are.
C15_NoSegmentsRaises ==
    (audioOut # <<>> /\ NothingToSay(audioIn.text)) => audioOut[1].raised

NonEmpty(segment) == segment # <<>>

\* The segments that are synthesized: the stripped pieces that are not empty.
Synthesized(text) ==
    LET segments == split(text)
    IN  SelectSeq([k \in 1..Len(segments) |-> strip(segments[k])], NonEmpty)

Audible(clip) == clip.kind = "speech" \/ clip.duration > 0

\* The synthesized segments in their order, one silence of inline_pause between
\* each two of them, and one silence of slide_pause at the end; silences of no
\* duration left out.
PlacedClips(text, inline_pause, slide_pause) ==
    LET synth == Synthesized(text)
        n == Len(synth)
        body == [j \in 1..(IF n = 0 THEN 0 ELSE 2 * n - 1) |->
                    IF j % 2 = 1 THEN Speech(synth[(j + 1) \div 2]) ELSE Silence(inline_pause)]
    IN  SelectSeq(body \o <<Silence(slide_pause)>>, Audible)

\* C16: silence placement.  The audio that is written is made of the
\* synthesized segments in text order, with exactly one silence of inline_pause
\* between each two consecutive ones and none before the first or after the
\* last, also when the text starts or ends with a marker or has adjacent
\* markers, followed by exactly one silence of slide_pause.
C16_SilencePlacement ==
    (audioOut # <<>> /\ ~audioOut[1].raised) =>
        audioOut[1].audio_clips = PlacedClips(audioIn.text, audioIn.inline_pause, audioIn.slide_pause)

(***************************************************************************)
(* Properties of extract_page_image.                                       *)
(***************************************************************************)
\* C21: page-range rejection.  For a document of N pages the call raises the
\* out-of-range error and writes no image for every page number outside 1..N,
\* 0 and the negative numbers included, and for p in 1..N it renders page p.
C21_PageRangeRejected ==
    extractOut # <<>> =>
        IF extractIn.page \in 1..extractIn.page_count
        THEN /\ ~extractOut[1].raised
             /\ extractOut[1].written
             /\ extractOut[1].rendered = extractIn.page
        ELSE /\ extractOut[1].raised
             /\ extractOut[1].error = "out of range"
             /\ ~extractOut[1].written

====
